---- MODULE Spec2Model ----
(***************************************************************************)
(* Emissions factors (src/model/emissionsfactors.py): the three text       *)
(* normalizers, the CO2Equiv conversion factors, and the two grid tables    *)
(* of ElectricityGenOnGrid with the lru_cache that wraps each of them.      *)
(*                                                                         *)
(* Numbers.  Every float literal of the source lies in [0, 1) and has at    *)
(* most 15 decimals.  A float is the pair <<a, b>> of its first nine and    *)
(* its next six decimals: 0.954301230978324 is <<954301230, 978324>>,       *)
(* 0.484512031078339 is <<484512031, 78339>> and 0.454068989 is             *)
(* <<454068989, 0>>.  Two literals denote the same float exactly when       *)
(* their pairs are equal.  NaN is the cell of a DataFrame built without     *)
(* data.                                                                    *)
(*                                                                         *)
(* Python values whose type matters (enumeration members, None, numbers,    *)
(* strings) are records [type, name]; name is the text str() gives, except  *)
(* for an enumeration member, where it is the member's name.                *)
(***************************************************************************)
EXTENDS Integers, Sequences, FiniteSets, TLC

VARIABLES
    objs,          \* the ElectricityGenOnGrid instances constructed so far, by identity 1..Len(objs)
    cache_CO2eq,   \* lru_cache of conv_ref_grid_CO2eq_per_KWh: instance identity -> cached table
    cache_CO2,     \* lru_cache of conv_ref_grid_CO2_per_KWh: instance identity -> cached table
    ret            \* outcome of the last call: what was called, with what, and what it returned or raised

vars == <<objs, cache_CO2eq, cache_CO2, ret>>

\* ------------------------------------------------------------------ bounds

\* Number of ElectricityGenOnGrid instances alive at once.
MaxInstances == 1

\* The same, where instances are built from the few configurations of
\* Configurations: one instance more is affordable there.
MaxResolvers == 2

\* ------------------------------------------------------------ Python values

PyValue(type, name) == [type |-> type, name |-> name]

None == PyValue("NoneType", "None")
PyStr(s) == PyValue("str", s)
PyInt(s) == PyValue("int", s)
PyBool(s) == PyValue("bool", s)

\* enum.Enum(type, names): one member per name; members of different
\* enumerations, and a member and a plain number, are never equal.
Enum(type, names) == [n \in names |-> PyValue(type, n)]

CO2EQ_SOURCE == Enum("CO2EQ_SOURCE", {"AR5_WITH_FEEDBACK", "AR4", "SAR"})
GRID_SOURCE == Enum("GRID_SOURCE", {"META", "IPCC"})
GRID_RANGE == Enum("GRID_RANGE", {"MEAN", "HIGH", "LOW"})

IsEnumMember(v) == v.type \in {"CO2EQ_SOURCE", "GRID_SOURCE", "GRID_RANGE"}

\* str(v): "GRID_SOURCE.META" for an enumeration member, else the value's text.
str(v) == IF IsEnumMember(v) THEN v.type \o "." \o v.name ELSE v.name

\* bool(v): None, 0, False and the empty string are false; an enumeration
\* member (no __bool__, no __len__) is true.
Truthy(v) ==
    CASE v.type = "NoneType" -> FALSE
      [] v.type = "int" -> v.name # "0"
      [] v.type = "bool" -> v.name = "True"
      [] v.type = "str" -> v.name # ""
      [] OTHER -> TRUE

\* Outcomes of a call.
Return(v) == [kind |-> "return", value |-> v]
Raise(e) == [kind |-> "raise", value |-> e]
ValueError(msg) == [exc |-> "ValueError", msg |-> msg]

\* ------------------------------------------------------------------- pandas

NaN == <<-1, -1>>

\* list(range(a, b)): a, a+1, ..., b-1.
range(a, b) == [i \in 1..(IF b > a THEN b - a ELSE 0) |-> a + i - 1]

\* The default index of a DataFrame built from rows: 0, 1, ..., n-1.
RangeIndex(a, b) == range(a, b)

\* A DataFrame: its row labels, the name of the index, its column labels,
\* and its cells by row position and column position.
DataFrame(index, index_name, columns, data) ==
    [index |-> index, index_name |-> index_name, columns |-> columns, data |-> data]

\* pd.DataFrame(index=..., columns=...): no data, every cell NaN.
EmptyDataFrame(index, columns) ==
    DataFrame(index, None, columns,
              [i \in 1..Len(index) |-> [j \in 1..Len(columns) |-> NaN]])

\* Position of a label in a sequence of labels (0 when absent).
Position(labels, label) ==
    IF \E j \in 1..Len(labels) : labels[j] = label
    THEN CHOOSE j \in 1..Len(labels) : labels[j] = label
    ELSE 0

\* df.loc[:, column].values: the column's cells in row order, without the index.
loc_values(df, column) ==
    LET j == Position(df.columns, column)
    IN  [i \in 1..Len(df.data) |-> df.data[i][j]]

\* df.loc[:, column] = values (an array): assigned by row position; pandas
\* raises ValueError when the lengths differ.
loc_set_values(df, column, values) ==
    LET j == Position(df.columns, column)
    IN  IF Len(values) # Len(df.index)
        THEN Raise(ValueError("Length of values does not match length of index"))
        ELSE Return([df EXCEPT !.data =
                [i \in 1..Len(df.data) |-> [df.data[i] EXCEPT ![j] = values[i]]]])

\* df.loc[:, column] = value (a scalar): every row of the column.
loc_set_scalar(df, column, value) ==
    LET j == Position(df.columns, column)
    IN  [df EXCEPT !.data = [i \in 1..Len(df.data) |-> [df.data[i] EXCEPT ![j] = value]]]

\* df.loc[label, column] = value: one cell, in place.
loc_set_cell(df, label, column, value) ==
    [df EXCEPT !.data[Position(df.index, label)][Position(df.columns, column)] = value]

\* The cell at a row label and a column label.
Cell(df, label, column) ==
    df.data[Position(df.index, label)][Position(df.columns, column)]

\* The row at a row label, and a row's cell at a column label:
\* InRow(RowAt(df, label), df, column) is Cell(df, label, column).
RowAt(df, label) == df.data[Position(df.index, label)]
InRow(row, df, column) == row[Position(df.columns, column)]

\* ------------------------------------------------------- reference datasets

\* emissionsfactors.py lines 179-203
_world_meta_1 ==
    DataFrame(RangeIndex(0, 46), None, <<"Year", "medium", "high", "low">>, <<
        <<2015, <<580491641, 0>>, <<726805942, 0>>, <<444419682, 0>>>>,
        <<2016, <<580381730, 0>>, <<726494196, 0>>, <<444511607, 0>>>>,
        <<2017, <<580191808, 0>>, <<726117383, 0>>, <<444508574, 0>>>>,
        <<2018, <<579932742, 0>>, <<725684840, 0>>, <<444422987, 0>>>>,
        <<2019, <<579613986, 0>>, <<725204693, 0>>, <<444265621, 0>>>>,
        <<2020, <<581083120, 0>>, <<726403172, 0>>, <<446005409, 0>>>>,
        <<2021, <<578829123, 0>>, <<724128766, 0>>, <<443771822, 0>>>>,
        <<2022, <<578376324, 0>>, <<723544325, 0>>, <<443450666, 0>>>>,
        <<2023, <<577890875, 0>>, <<722935374, 0>>, <<443088717, 0>>>>,
        <<2024, <<577377675, 0>>, <<722306095, 0>>, <<442691597, 0>>>>,
        <<2025, <<576724036, 0>>, <<721565698, 0>>, <<442124716, 0>>>>,
        <<2026, <<576284921, 0>>, <<721000946, 0>>, <<441811237, 0>>>>,
        <<2027, <<575712661, 0>>, <<720331282, 0>>, <<441336382, 0>>>>,
        <<2028, <<575127412, 0>>, <<719653850, 0>>, <<440843316, 0>>>>,
        <<2029, <<574531990, 0>>, <<718971040, 0>>, <<440335281, 0>>>>,
        <<2030, <<573264022, 0>>, <<717635960, 0>>, <<439134425, 0>>>>,
        <<2031, <<573320545, 0>>, <<717597727, 0>>, <<439285704, 0>>>>,
        <<2032, <<572708901, 0>>, <<716910953, 0>>, <<438749190, 0>>>>,
        <<2033, <<572095895, 0>>, <<716226301, 0>>, <<438207831, 0>>>>,
        <<2034, <<571483259, 0>>, <<715545242, 0>>, <<437663617, 0>>>>,
        <<2035, <<570821497, 0>>, <<714820866, 0>>, <<437064470, 0>>>>,
        <<2036, <<570265395, 0>>, <<714199285, 0>>, <<436573847, 0>>>>,
        <<2037, <<569663069, 0>>, <<713536875, 0>>, <<436031604, 0>>>>,
        <<2038, <<569066909, 0>>, <<712883028, 0>>, <<435493132, 0>>>>,
        <<2039, <<568478136, 0>>, <<712238796, 0>>, <<434959817, 0>>>>,
        <<2040, <<567083308, 0>>, <<710887186, 0>>, <<433521771, 0>>>>,
        <<2041, <<567327331, 0>>, <<710983152, 0>>, <<433913852, 0>>>>,
        <<2042, <<566767481, 0>>, <<710373641, 0>>, <<433403663, 0>>>>,
        <<2043, <<566219394, 0>>, <<709777559, 0>>, <<432903570, 0>>>>,
        <<2044, <<565684079, 0>>, <<709195799, 0>>, <<432414701, 0>>>>,
        <<2045, <<565044176, 0>>, <<708501694, 0>>, <<431829000, 0>>>>,
        <<2046, <<564655700, 0>>, <<708078732, 0>>, <<431475009, 0>>>>,
        <<2047, <<564164556, 0>>, <<707545143, 0>>, <<431026311, 0>>>>,
        <<2048, <<563690051, 0>>, <<707029331, 0>>, <<430593113, 0>>>>,
        <<2049, <<563233144, 0>>, <<706532169, 0>>, <<430176460, 0>>>>,
        <<2050, <<563942003, 0>>, <<707108074, 0>>, <<431018275, 0>>>>,
        <<2051, <<562376012, 0>>, <<705597348, 0>>, <<429397017, 0>>>>,
        <<2052, <<561977781, 0>>, <<705161518, 0>>, <<429036385, 0>>>>,
        <<2053, <<561601149, 0>>, <<704748013, 0>>, <<428696627, 0>>>>,
        <<2054, <<561247194, 0>>, <<704357833, 0>>, <<428378896, 0>>>>,
        <<2055, <<560917031, 0>>, <<703992021, 0>>, <<428084382, 0>>>>,
        <<2056, <<560611819, 0>>, <<703651663, 0>>, <<427814318, 0>>>>,
        <<2057, <<560332776, 0>>, <<703337903, 0>>, <<427569991, 0>>>>,
        <<2058, <<560081211, 0>>, <<703051332, 0>>, <<427353431, 0>>>>,
        <<2059, <<559858464, 0>>, <<702793863, 0>>, <<427165406, 0>>>>,
        <<2060, <<559324305, 0>>, <<702254712, 0>>, <<426636240, 0>>>>
    >>)

\* emissionsfactors.py lines 206-253
_world_ipcc ==
    DataFrame(RangeIndex(0, 46), None, <<"Year", "medium", "high", "low">>, <<
        <<2015, <<484233479, 886851>>, <<954301230, 978324>>, <<415714611, 547194>>>>,
        <<2016, <<483874688, 367180>>, <<953705808, 726241>>, <<415699168, 23559>>>>,
        <<2017, <<483468578, 344429>>, <<953091499, 730308>>, <<415616211, 90683>>>>,
        <<2018, <<483022233, 781448>>, <<952462141, 44895>>, <<415474739, 683663>>>>,
        <<2019, <<482541827, 613129>>, <<951821094, 94534>>, <<415282575, 858891>>>>,
        <<2020, <<483415642, 278809>>, <<952177536, 197487>>, <<416520905, 499686>>>>,
        <<2021, <<481499412, 617218>>, <<950514955, 984204>>, <<414772457, 309720>>>>,
        <<2022, <<480945957, 200632>>, <<949854330, 227>>, <<414465552, 432322>>>>,
        <<2023, <<480375890, 793439>>, <<949191227, 373746>>, <<414130387, 202149>>>>,
        <<2024, <<479792370, 97929>>, <<948527306, 71946>>, <<413771028, 606294>>>>,
        <<2025, <<479129875, 365096>>, <<947838144, 272479>>, <<413292094, 853295>>>>,
        <<2026, <<478595824, 341775>>, <<947202675, 323842>>, <<412993759, 718887>>>>,
        <<2027, <<477987474, 489965>>, <<946544387, 335615>>, <<412581910, 201081>>>>,
        <<2028, <<477375134, 675864>>, <<945890189, 693049>>, <<412158128, 728530>>>>,
        <<2029, <<476760604, 919920>>, <<945241007, 845619>>, <<411724756, 299051>>>>,
        <<2030, <<475609144, 710954>>, <<944163265, 130839>>, <<410760518, 917611>>>>,
        <<2031, <<475531330, 98496>>, <<943960978, 462593>>, <<410837481, 63205>>>>,
        <<2032, <<474919397, 316536>>, <<943331597, 296287>>, <<410387213, 255880>>>>,
        <<2033, <<474310925, 799146>>, <<942710164, 328208>>, <<409934674, 540315>>>>,
        <<2034, <<473707024, 60823>>, <<942097253, 91754>>, <<409481302, 620380>>>>,
        <<2035, <<473069619, 537973>>, <<941464119, 365002>>, <<408987650, 13088>>>>,
        <<2036, <<472516992, 530166>>, <<940899134, 962305>>, <<408577287, 386756>>>>,
        <<2037, <<471932749, 289687>>, <<940314944, 696740>>, <<408129046, 349254>>>>,
        <<2038, <<471356840, 757086>>, <<939741296, 80086>>, <<407684776, 56632>>>>,
        <<2039, <<470790067, 978465>>, <<939178632, 698648>>, <<407245483, 451931>>>>,
        <<2040, <<469678044, 528875>>, <<938292812, 842989>>, <<406144087, 639722>>>>,
        <<2041, <<469686967, 218630>>, <<938087976, 21352>>, <<406385614, 113651>>>>,
        <<2042, <<469152097, 173049>>, <<937560823, 287853>>, <<405966833, 587310>>>>,
        <<2043, <<468629288, 818192>>, <<937046343, 521181>>, <<405556634, 681864>>>>,
        <<2044, <<468119232, 533872>>, <<936544954, 506346>>, <<405155846, 275011>>>>,
        <<2045, <<467511263, 814817>>, <<935948980, 928557>>, <<404676293, 987320>>>>,
        <<2046, <<467140086, 966888>>, <<935583127, 327976>>, <<404385713, 672719>>>>,
        <<2047, <<466672338, 575004>>, <<935123538, 476659>>, <<404017937, 790258>>>>,
        <<2048, <<466220041, 675584>>, <<934678754, 794794>>, <<403662724, 592571>>>>,
        <<2049, <<465783884, 392082>>, <<934249237, 215735>>, <<403320851, 377671>>>>,
        <<2050, <<466202378, 14719>>, <<934415166, 260444>>, <<403919169, 849744>>>>,
        <<2051, <<464962806, 154690>>, <<933437918, 543026>>, <<402680273, 560695>>>>,
        <<2052, <<464579339, 264012>>, <<933057121, 808404>>, <<402383178, 115162>>>>,
        <<2053, <<464214935, 271267>>, <<932693614, 309824>>, <<402102653, 404484>>>>,
        <<2054, <<463870395, 799940>>, <<932347969, 864178>>, <<401839564, 471306>>>>,
        <<2055, <<463546558, 438388>>, <<932020795, 519145>>, <<401594806, 949223>>>>,
        <<2056, <<463244298, 699963>>, <<931712733, 709783>>, <<401369308, 350724>>>>,
        <<2057, <<462964541, 559962>>, <<931424469, 977991>>, <<401164041, 108521>>>>,
        <<2058, <<462707434, 123228>>, <<931155096, 821641>>, <<400980275, 898344>>>>,
        <<2059, <<462474856, 382921>>, <<930907038, 457189>>, <<400818857, 404330>>>>,
        <<2060, <<462020537, 57214>>, <<930512636, 676233>>, <<400404559, 244924>>>>
    >>)

\* emissionsfactors.py lines 256-303
_world_meta_2 ==
    DataFrame(RangeIndex(0, 46), None, <<"Year", "medium", "high", "low">>, <<
        <<2015, <<619753649, 484954>>, <<834200994, 227942>>, <<446911398, 737087>>>>,
        <<2016, <<613223327, 855322>>, <<827419241, 197181>>, <<441324423, 346894>>>>,
        <<2017, <<606715005, 275064>>, <<817903147, 977287>>, <<436594799, 95373>>>>,
        <<2018, <<602650482, 222055>>, <<811957311, 805342>>, <<433711588, 716669>>>>,
        <<2019, <<599546311, 600711>>, <<808809196, 292089>>, <<431043861, 809484>>>>,
        <<2020, <<595844101, 320605>>, <<805066315, 637190>>, <<427859783, 304937>>>>,
        <<2021, <<592313613, 174105>>, <<801495614, 192573>>, <<424823161, 474647>>>>,
        <<2022, <<588839905, 934230>>, <<797975220, 897886>>, <<421832598, 87871>>>>,
        <<2023, <<585449295, 836798>>, <<794534135, 403531>>, <<418911809, 360421>>>>,
        <<2024, <<582134106, 340607>>, <<791164960, 38795>>, <<416054306, 144423>>>>,
        <<2025, <<579212349, 557159>>, <<788184425, 39760>>, <<413534464, 382670>>>>,
        <<2026, <<575701698, 847632>>, <<784615063, 765847>>, <<410505236, 766206>>>>,
        <<2027, <<572571412, 159762>>, <<781421736, 177582>>, <<407802618, 493011>>>>,
        <<2028, <<569490331, 287843>>, <<778275031, 115247>>, <<405141116, 198009>>>>,
        <<2029, <<566452830, 841887>>, <<775169515, 850856>>, <<402515970, 114720>>>>,
        <<2030, <<563582610, 910188>>, <<772224408, 553539>>, <<400032800, 926231>>>>,
        <<2031, <<560487575, 191628>>, <<769061765, 323778>>, <<397356976, 482730>>>>,
        <<2032, <<557549996, 15452>>, <<766050030, 587511>>, <<394814811, 934275>>>>,
        <<2033, <<554636302, 401122>>, <<763060441, 667938>>, <<392292329, 996334>>>>,
        <<2034, <<551742154, 484868>>, <<760088796, 218024>>, <<389785854, 191242>>>>,
        <<2035, <<548784376, 564443>>, <<757051944, 289887>>, <<387224226, 526241>>>>,
        <<2036, <<545979252, 104998>>, <<754165935, 635464>>, <<384793649, 89973>>>>,
        <<2037, <<543106698, 312767>>, <<751211316, 808699>>, <<382304463, 418555>>>>,
        <<2038, <<540236787, 794954>>, <<748258161, 570859>>, <<379817005, 842378>>>>,
        <<2039, <<537352597, 396159>>, <<745289123, 477943>>, <<377317616, 531354>>>>,
        <<2040, <<534257808, 148527>>, <<742113543, 256056>>, <<374637411, 133684>>>>,
        <<2041, <<531581023, 73820>>, <<739345510, 659962>>, <<372313849, 192314>>>>,
        <<2042, <<528685258, 247064>>, <<736362655, 581270>>, <<369802465, 48003>>>>,
        <<2043, <<525775521, 926616>>, <<733365101, 778856>>, <<367278694, 303595>>>>,
        <<2044, <<522848765, 756972>>, <<730349877, 395092>>, <<364739945, 323485>>>>,
        <<2045, <<519796747, 547837>>, <<727206616, 166885>>, <<362092302, 98936>>>>,
        <<2046, <<516932341, 500910>>, <<724254851, 488976>>, <<359607432, 66743>>>>,
        <<2047, <<513936894, 157109>>, <<721169405, 528371>>, <<357008750, 494339>>>>,
        <<2048, <<510912853, 777991>>, <<718054985, 950131>>, <<354385243, 670808>>>>,
        <<2049, <<508316537, 396635>>, <<715381773, 638989>>, <<352134907, 312678>>>>,
        <<2050, <<506594921, 787481>>, <<713622488, 394168>>, <<350653654, 650227>>>>,
        <<2051, <<504688929, 275709>>, <<711690195, 955989>>, <<349010631, 116045>>>>,
        <<2052, <<502854324, 722711>>, <<709827677, 277282>>, <<347428887, 775673>>>>,
        <<2053, <<500981466, 874364>>, <<707928699, 401097>>, <<345814547, 929372>>>>,
        <<2054, <<499068430, 228993>>, <<705991414, 176679>>, <<344165978, 406253>>>>,
        <<2055, <<497072403, 296562>>, <<703969699, 319331>>, <<342445358, 912229>>>>,
        <<2056, <<495114656, 946048>>, <<701995050, 774066>>, <<340760075, 761759>>>>,
        <<2057, <<493070596, 435275>>, <<699932787, 17676>>, <<338999924, 825479>>>>,
        <<2058, <<490979702, 541600>>, <<697825838, 98367>>, <<337199902, 765339>>>>,
        <<2059, <<488840556, 318235>>, <<695672846, 558836>>, <<335358807, 437345>>>>,
        <<2060, <<486810301, 162345>>, <<693612676, 11530>>, <<333607332, 510495>>>>
    >>)

\* emissionsfactors.py lines 307-354
_world_meta_3 ==
    DataFrame(RangeIndex(0, 46), None, <<"Year", "medium", "high", "low">>, <<
        <<2015, <<617381627, 523255>>, <<830817877, 69664>>, <<446511800, 66534>>>>,
        <<2016, <<613053711, 917674>>, <<824698901, 512021>>, <<443404400, 78671>>>>,
        <<2017, <<605559021, 113794>>, <<815532512, 15463>>, <<437490678, 56033>>>>,
        <<2018, <<599823764, 37522>>, <<807926586, 189615>>, <<433230012, 701179>>>>,
        <<2019, <<596692109, 138654>>, <<804739279, 793431>>, <<430557603, 413934>>>>,
        <<2020, <<592956465, 174414>>, <<800948724, 769081>>, <<427367828, 954101>>>>,
        <<2021, <<589394210, 498330>>, <<797332726, 214472>>, <<424325795, 194590>>>>,
        <<2022, <<585889940, 804312>>, <<793768752, 747037>>, <<421330025, 11830>>>>,
        <<2023, <<582469966, 488571>>, <<790285795, 690257>>, <<418404233, 626765>>>>,
        <<2024, <<579126508, 336472>>, <<786876310, 967440>>, <<415541914, 399482>>>>,
        <<2025, <<576180723, 793771>>, <<783861513, 867133>>, <<413017979, 130062>>>>,
        <<2026, <<572640473, 126760>>, <<780249944, 881284>>, <<409983708, 694097>>>>,
        <<2027, <<569484653, 817574>>, <<777020209, 351351>>, <<407276740, 536253>>>>,
        <<2028, <<566378787, 697806>>, <<773838162, 55771>>, <<404611015, 683456>>>>,
        <<2029, <<563317175, 272247>>, <<770698264, 597087>>, <<401981761, 744236>>>>,
        <<2030, <<560425096, 459919>>, <<767721987, 885512>>, <<399494868, 550752>>>>,
        <<2031, <<557305440, 93151>>, <<764524237, 131432>>, <<396814849, 591601>>>>,
        <<2032, <<554345365, 121137>>, <<761480424, 779140>>, <<394268852, 529604>>>>,
        <<2033, <<551409591, 841439>>, <<758459351, 619903>>, <<391742608, 972507>>>>,
        <<2034, <<548493724, 307989>>, <<755456735, 336789>>, <<389232432, 888142>>>>,
        <<2035, <<545513743, 488868>>, <<752388223, 445871>>, <<386667022, 609245>>>>,
        <<2036, <<542688055, 628436>>, <<749472892, 651180>>, <<384232941, 873367>>>>,
        <<2037, <<539794403, 434954>>, <<746488188, 806800>>, <<381740161, 756609>>>>,
        <<2038, <<536903541, 206374>>, <<743505157, 722919>>, <<379249134, 726127>>>>,
        <<2039, <<533998346, 916998>>, <<740506169, 378769>>, <<376746167, 71146>>>>,
        <<2040, <<530880184, 208068>>, <<737297260, 44097>>, <<374061979, 635782>>>>,
        <<2041, <<528185054, 593160>>, <<734503069, 266229>>, <<371735292, 412725>>>>,
        <<2042, <<525268472, 346747>>, <<731490529, 832329>>, <<369220361, 692718>>>>,
        <<2043, <<522337858, 549740>>, <<728463206, 37271>>, <<366693034, 140975>>>>,
        <<2044, <<519390127, 508675>>, <<725418072, 781803>>, <<364150711, 760779>>>>,
        <<2045, <<516316182, 594658>>, <<722243545, 426141>>, <<361499332, 976304>>>>,
        <<2046, <<513431317, 163278>>, <<719262606, 929121>>, <<359010977, 365359>>>>,
        <<2047, <<510414388, 803142>>, <<716146530, 365413>>, <<356408636, 163102>>>>,
        <<2048, <<507368630, 222783>>, <<713001141, 973038>>, <<353781429, 301529>>>>,
        <<2049, <<504753471, 538005>>, <<710301061, 700499>>, <<351527882, 859898>>>>,
        <<2050, <<503017662, 563427>>, <<708521537, 592850>>, <<350044212, 133840>>>>,
        <<2051, <<501095097, 574196>>, <<706565613, 824964>>, <<348398365, 216802>>>>,
        <<2052, <<499244741, 360773>>, <<704680634, 250964>>, <<346813938, 332699>>>>,
        <<2053, <<497355610, 112209>>, <<702758451, 510754>>, <<345196826, 56066>>>>,
        <<2054, <<495425752, 440293>>, <<700797180, 540976>>, <<343545390, 805835>>>>,
        <<2055, <<493412239, 186826>>, <<698750531, 269397>>, <<341821792, 241291>>>>,
        <<2056, <<491436597, 471548>>, <<696750365, 38799>>, <<340133460, 333253>>>>,
        <<2057, <<489373931, 181422>>, <<694661570, 589733>>, <<338370139, 609077>>>>,
        <<2058, <<487263793, 557604>>, <<692527181, 299305>>, <<336566839, 76065>>>>,
        <<2059, <<485104746, 166210>>, <<690345811, 922819>>, <<334722353, 270288>>>>,
        <<2060, <<483057064, 536976>>, <<688260792, 300398>>, <<332967909, 468916>>>>
    >>)

\* emissionsfactors.py lines 357-404
_world_meta_4 ==
    DataFrame(RangeIndex(0, 46), None, <<"Year", "medium", "high", "low">>, <<
        <<2015, <<619731238, 862595>>, <<833329897, 638502>>, <<447394567, 903417>>>>,
        <<2016, <<613191401, 904823>>, <<826475738, 292122>>, <<441840091, 403282>>>>,
        <<2017, <<606673460, 423821>>, <<816888151, 363190>>, <<437142332, 630907>>>>,
        <<2018, <<602621620, 826105>>, <<810921431, 890408>>, <<434283943, 572488>>>>,
        <<2019, <<599517169, 584422>>, <<807763244, 481335>>, <<431621781, 691129>>>>,
        <<2020, <<595814617, 939265>>, <<804008111, 709454>>, <<428444472, 850274>>>>,
        <<2021, <<592283805, 449719>>, <<800425769, 93762>>, <<425414283, 117659>>>>,
        <<2022, <<588809786, 160664>>, <<796894175, 873816>>, <<422429908, 26953>>>>,
        <<2023, <<585418876, 248296>>, <<793442329, 560030>>, <<419515064, 976376>>>>,
        <<2024, <<582103398, 123095>>, <<790062794, 855959>>, <<416663285, 607405>>>>,
        <<2025, <<579181396, 11097>>, <<787073454, 637732>>, <<414148308, 994488>>>>,
        <<2026, <<575670443, 79687>>, <<783493246, 155346>>, <<411125074, 787444>>>>,
        <<2027, <<572539895, 698304>>, <<780290561, 875727>>, <<408427626, 368065>>>>,
        <<2028, <<569458561, 763715>>, <<777134774, 4723>>, <<405771142, 598445>>>>,
        <<2029, <<566420815, 129301>>, <<774020422, 657726>>, <<403150878, 716958>>>>,
        <<2030, <<563550372, 13766>>, <<771067304, 949067>>, <<400672135, 522024>>>>,
        <<2031, <<560455084, 913133>>, <<767895639, 229866>>, <<398001296, 275715>>>>,
        <<2032, <<557517276, 50081>>, <<764875660, 678135>>, <<395463686, 683625>>>>,
        <<2033, <<554603356, 997654>>, <<761877980, 438385>>, <<392945675, 443809>>>>,
        <<2034, <<551708987, 319473>>, <<758898375, 611644>>, <<390443597, 434166>>>>,
        <<2035, <<548750982, 702714>>, <<755853387, 203211>>, <<387886465, 419616>>>>,
        <<2036, <<545945648, 286556>>, <<752959842, 879268>>, <<385460051, 667747>>>>,
        <<2037, <<543072879, 75145>>, <<749997492, 326640>>, <<382975138, 7765>>>>,
        <<2038, <<540202754, 635895>>, <<747036659, 119172>>, <<380491922, 741082>>>>,
        <<2039, <<537318349, 782893>>, <<744059923, 934800>>, <<377996786, 304940>>>>,
        <<2040, <<534223321, 887233>>, <<740875778, 267926>>, <<375321313, 573634>>>>,
        <<2041, <<531546349, 510856>>, <<738101023, 126640>>, <<373001466, 40980>>>>,
        <<2042, <<528650372, 133802>>, <<735110539, 290677>>, <<370494297, 14854>>>>,
        <<2043, <<525740422, 649863>>, <<732105334, 722523>>, <<367974753, 548975>>>>,
        <<2044, <<522813452, 322305>>, <<729082423, 881671>>, <<365440251, 567938>>>>,
        <<2045, <<519761210, 236833>>, <<725931127, 387228>>, <<362797048, 70022>>>>,
        <<2046, <<516896595, 295224>>, <<722971865, 157726>>, <<360316320, 660926>>>>,
        <<2047, <<513900928, 625662>>, <<719878547, 258031>>, <<357721988, 571989>>>>,
        <<2048, <<510876666, 499075>>, <<716756168, 821856>>, <<355102879, 257204>>>>,
        <<2049, <<508280157, 733779>>, <<714076051, 555076>>, <<352856358, 95056>>>>,
        <<2050, <<506558397, 207335>>, <<712311565, 5700>>, <<351377979, 310044>>>>,
        <<2051, <<504652235, 487031>>, <<710373199, 412923>>, <<349738311, 376714>>>>,
        <<2052, <<502817470, 106218>>, <<708504908, 376451>>, <<348159757, 437882>>>>,
        <<2053, <<500944446, 102982>>, <<706599966, 945595>>, <<346548712, 635171>>>>,
        <<2054, <<499031237, 711340>>, <<704656517, 483214>>, <<344903549, 39207>>>>,
        <<2055, <<497035032, 239839>>, <<702628394, 583901>>, <<343186470, 181391>>>>,
        <<2056, <<495077103, 173832>>, <<700647188, 98395>>, <<341504810, 490442>>>>,
        <<2057, <<493032852, 694081>>, <<698578106, 63043>>, <<339748426, 858670>>>>,
        <<2058, <<490941762, 317814>>, <<696464105, 81149>>, <<337952301, 275530>>>>,
        <<2059, <<488802412, 899276>>, <<694303820, 554168>>, <<336115235, 542782>>>>,
        <<2060, <<486771979, 815374>>, <<692237263, 896700>>, <<334367289, 134159>>>>
    >>)

\* ------------------------------------------------------------ CO2Equiv

\* CO2Equiv with the AR4 row holding SAR's CH4 multiplier.
CO2Equiv_AR4RowFromSAR(conversion_source) ==
    LET self_conversion_source ==
            IF Truthy(conversion_source) THEN conversion_source
            ELSE CO2EQ_SOURCE.AR5_WITH_FEEDBACK
        self(CH4, N2O) == [conversion_source |-> self_conversion_source,
                           CH4multiplier |-> CH4, N2Omultiplier |-> N2O]
    IN  IF self_conversion_source = CO2EQ_SOURCE.AR5_WITH_FEEDBACK THEN Return(self(34, 298))
        ELSE IF self_conversion_source = CO2EQ_SOURCE.AR4 THEN Return(self(21, 298))
        ELSE IF self_conversion_source = CO2EQ_SOURCE.SAR THEN Return(self(21, 310))
        ELSE Raise(ValueError("invalid conversion_source=" \o str(self_conversion_source)))

\* CO2Equiv.__init__(self, conversion_source=None): the object built, or the
\* error raised.
CO2Equiv(conversion_source) ==
    LET self_conversion_source ==
            IF Truthy(conversion_source) THEN conversion_source
            ELSE CO2EQ_SOURCE.AR5_WITH_FEEDBACK
        self(CH4, N2O) == [conversion_source |-> self_conversion_source,
                           CH4multiplier |-> CH4, N2Omultiplier |-> N2O]
    IN  IF self_conversion_source = CO2EQ_SOURCE.AR5_WITH_FEEDBACK THEN Return(self(34, 298))
        ELSE IF self_conversion_source = CO2EQ_SOURCE.AR4 THEN Return(self(25, 298))
        ELSE IF self_conversion_source = CO2EQ_SOURCE.SAR THEN Return(self(21, 310))
        ELSE Raise(ValueError("invalid conversion_source=" \o str(self_conversion_source)))

\* ------------------------------------------------------- text normalizers

UpperLetters == "ABCDEFGHIJKLMNOPQRSTUVWXYZ"
LowerLetters == "abcdefghijklmnopqrstuvwxyz"

\* The character at position i of a string, as a string.
CharAt(s, i) == SubSeq(s, i, i)

\* One character lower-cased: an upper-case letter becomes its lower-case
\* letter, anything else is kept.
LowerChar(c) ==
    IF \E k \in 1..Len(UpperLetters) : CharAt(UpperLetters, k) = c
    THEN CharAt(LowerLetters, CHOOSE k \in 1..Len(UpperLetters) : CharAt(UpperLetters, k) = c)
    ELSE c

RECURSIVE lower(_)
\* str.lower(): every character lower-cased, nothing stripped.
lower(s) == IF s = "" THEN "" ELSE LowerChar(CharAt(s, 1)) \o lower(SubSeq(s, 2, Len(s)))

string_to_conversion_source(text) ==
    LET lowered == lower(str(text))    \* str(text).lower(), the same in every branch
    IN  IF lowered = "ar5 with feedback" THEN Return(CO2EQ_SOURCE.AR5_WITH_FEEDBACK)
        ELSE IF lowered = "ar5_with_feedback" THEN Return(CO2EQ_SOURCE.AR5_WITH_FEEDBACK)
        ELSE IF lowered = "ar4" THEN Return(CO2EQ_SOURCE.AR4)
        ELSE IF lowered = "sar" THEN Return(CO2EQ_SOURCE.SAR)
        ELSE Raise(ValueError("invalid conversion name=" \o str(text)))

\* string_to_emissions_grid_source matching "ipcc" as a prefix.
string_to_emissions_grid_source_PrefixMatch(text) ==
    LET lowered == lower(str(text))
    IN  IF lowered = "meta-analysis" THEN Return(GRID_SOURCE.META)
        ELSE IF lowered = "meta_analysis" THEN Return(GRID_SOURCE.META)
        ELSE IF lowered = "meta analysis" THEN Return(GRID_SOURCE.META)
        ELSE IF Len(lowered) >= 4 /\ SubSeq(lowered, 1, 4) = "ipcc" THEN Return(GRID_SOURCE.IPCC)
        ELSE Raise(ValueError("invalid grid source name=" \o str(text)))

string_to_emissions_grid_source(text) ==
    LET lowered == lower(str(text))    \* str(text).lower(), the same in every branch
    IN  IF lowered = "meta-analysis" THEN Return(GRID_SOURCE.META)
        ELSE IF lowered = "meta_analysis" THEN Return(GRID_SOURCE.META)
        ELSE IF lowered = "meta analysis" THEN Return(GRID_SOURCE.META)
        ELSE IF lowered = "ipcc only" THEN Return(GRID_SOURCE.IPCC)
        ELSE IF lowered = "ipcc_only" THEN Return(GRID_SOURCE.IPCC)
        ELSE Raise(ValueError("invalid grid source name=" \o str(text)))

\* string_to_emissions_grid_range without the "median" synonym.
string_to_emissions_grid_range_NoMedian(text) ==
    LET lowered == lower(str(text))
    IN  IF lowered = "mean" THEN Return(GRID_RANGE.MEAN)
        ELSE IF lowered = "high" THEN Return(GRID_RANGE.HIGH)
        ELSE IF lowered = "low" THEN Return(GRID_RANGE.LOW)
        ELSE Raise(ValueError("invalid grid range name=" \o str(text)))

string_to_emissions_grid_range(text) ==
    LET lowered == lower(str(text))    \* str(text).lower(), the same in every branch
    IN  IF lowered = "mean" THEN Return(GRID_RANGE.MEAN)
        ELSE IF lowered = "median" THEN Return(GRID_RANGE.MEAN)
        ELSE IF lowered = "high" THEN Return(GRID_RANGE.HIGH)
        ELSE IF lowered = "low" THEN Return(GRID_RANGE.LOW)
        ELSE Raise(ValueError("invalid grid range name=" \o str(text)))

\* ---------------------------------------------------- ElectricityGenOnGrid

\* ElectricityGenOnGrid.__init__(self, ac, grid_emissions_version=1).
ElectricityGenOnGrid(ac, grid_emissions_version) ==
    [ac |-> ac, grid_emissions_version |-> grid_emissions_version]

\* NewResult with range(2015, 2060): one year short.
NewResult_OneYearShort ==
    [EmptyDataFrame(range(2015, 2060),
                    <<"World", "OECD90", "Eastern Europe", "Asia (Sans Japan)",
                      "Middle East and Africa", "Latin America", "China", "India",
                      "EU", "USA">>)
        EXCEPT !.index_name = PyStr("Year")]

\* The frame both table methods start from: years 2015..2060 by the ten
\* regions, no data, the index named "Year".
NewResult ==
    [EmptyDataFrame(range(2015, 2061),
                    <<"World", "OECD90", "Eastern Europe", "Asia (Sans Japan)",
                      "Middle East and Africa", "Latin America", "China", "India",
                      "EU", "USA">>)
        EXCEPT !.index_name = PyStr("Year")]

\* SelectGrid that checks the version before the source: IPCC with an
\* unsupported version is refused.
SelectGrid_IPCCValidatesVersion(self) ==
    IF self.grid_emissions_version \notin 1..4
        THEN Raise(ValueError("Invalid self.ac.emissions_grid_source "
                              \o str(self.ac.emissions_grid_source)))
    ELSE IF self.ac.emissions_grid_source = GRID_SOURCE.IPCC THEN Return(_world_ipcc)
    ELSE IF self.grid_emissions_version = 1 THEN Return(_world_meta_1)
    ELSE IF self.grid_emissions_version = 2 THEN Return(_world_meta_2)
    ELSE IF self.grid_emissions_version = 3 THEN Return(_world_meta_3)
    ELSE Return(_world_meta_4)

\* The reference dataset chosen by grid source and dataset version.
SelectGrid(self) ==
    IF self.ac.emissions_grid_source = GRID_SOURCE.IPCC THEN Return(_world_ipcc)
    ELSE IF self.ac.emissions_grid_source = GRID_SOURCE.META /\ self.grid_emissions_version = 1
        THEN Return(_world_meta_1)
    ELSE IF self.ac.emissions_grid_source = GRID_SOURCE.META /\ self.grid_emissions_version = 2
        THEN Return(_world_meta_2)
    ELSE IF self.ac.emissions_grid_source = GRID_SOURCE.META /\ self.grid_emissions_version = 3
        THEN Return(_world_meta_3)
    ELSE IF self.ac.emissions_grid_source = GRID_SOURCE.META /\ self.grid_emissions_version = 4
        THEN Return(_world_meta_4)
    ELSE Raise(ValueError("Invalid self.ac.emissions_grid_source "
                          \o str(self.ac.emissions_grid_source)))

\* SetWorld with the "high" and "low" columns exchanged.
SetWorld_HighLowSwapped(self, result, grid) ==
    IF self.ac.emissions_grid_range = GRID_RANGE.HIGH
        THEN loc_set_values(result, "World", loc_values(grid, "low"))
    ELSE IF self.ac.emissions_grid_range = GRID_RANGE.LOW
        THEN loc_set_values(result, "World", loc_values(grid, "high"))
    ELSE IF self.ac.emissions_grid_range = GRID_RANGE.MEAN
        THEN loc_set_values(result, "World", loc_values(grid, "medium"))
    ELSE Raise(ValueError("Invalid ac.emissions_grid_range "
                          \o str(self.ac.emissions_grid_range)))

\* SetWorld that falls back to the "medium" column for a range it does not know.
SetWorld_DefaultsToMedium(self, result, grid) ==
    IF self.ac.emissions_grid_range = GRID_RANGE.HIGH
        THEN loc_set_values(result, "World", loc_values(grid, "high"))
    ELSE IF self.ac.emissions_grid_range = GRID_RANGE.LOW
        THEN loc_set_values(result, "World", loc_values(grid, "low"))
    ELSE loc_set_values(result, "World", loc_values(grid, "medium"))

\* The "World" column, from the column of the dataset chosen by grid range.
SetWorld(self, result, grid) ==
    IF self.ac.emissions_grid_range = GRID_RANGE.HIGH
        THEN loc_set_values(result, "World", loc_values(grid, "high"))
    ELSE IF self.ac.emissions_grid_range = GRID_RANGE.LOW
        THEN loc_set_values(result, "World", loc_values(grid, "low"))
    ELSE IF self.ac.emissions_grid_range = GRID_RANGE.MEAN
        THEN loc_set_values(result, "World", loc_values(grid, "medium"))
    ELSE Raise(ValueError("Invalid ac.emissions_grid_range "
                          \o str(self.ac.emissions_grid_range)))

\* SetRegions with the constants of "EU" and "USA" exchanged.
SetRegions_EUandUSASwapped(result) ==
    LET r1 == loc_set_scalar(result, "OECD90", <<454068989, 0>>)
        r2 == loc_set_scalar(r1, "Eastern Europe", <<724747956, 0>>)
        r3 == loc_set_scalar(r2, "Asia (Sans Japan)", <<457658947, 0>>)
        r4 == loc_set_scalar(r3, "Middle East and Africa", <<282243907, 0>>)
        r5 == loc_set_scalar(r4, "Latin America", <<564394712, 0>>)
        r6 == loc_set_scalar(r5, "China", <<535962403, 0>>)
        r7 == loc_set_scalar(r6, "India", <<787832379, 0>>)
        r8 == loc_set_scalar(r7, "EU", <<665071666, 0>>)
    IN  loc_set_scalar(r8, "USA", <<360629290, 0>>)

\* The nine region columns of the CO2-eq table, one constant each.
SetRegions(result) ==
    LET r1 == loc_set_scalar(result, "OECD90", <<454068989, 0>>)
        r2 == loc_set_scalar(r1, "Eastern Europe", <<724747956, 0>>)
        r3 == loc_set_scalar(r2, "Asia (Sans Japan)", <<457658947, 0>>)
        r4 == loc_set_scalar(r3, "Middle East and Africa", <<282243907, 0>>)
        r5 == loc_set_scalar(r4, "Latin America", <<564394712, 0>>)
        r6 == loc_set_scalar(r5, "China", <<535962403, 0>>)
        r7 == loc_set_scalar(r6, "India", <<787832379, 0>>)
        r8 == loc_set_scalar(r7, "EU", <<360629290, 0>>)
    IN  loc_set_scalar(r8, "USA", <<665071666, 0>>)

\* The body of conv_ref_grid_CO2eq_per_KWh(self), under its decorators.
conv_ref_grid_CO2eq_per_KWh(self) ==
    LET grid == SelectGrid(self)
    IN  IF grid.kind = "raise" THEN grid
        ELSE LET world == SetWorld(self, NewResult, grid.value)
             IN  IF world.kind = "raise" THEN world
                 ELSE Return(SetRegions(world.value))

\* conv_ref_grid_CO2_per_KWh with "World" read from the selected dataset, as
\* conv_ref_grid_CO2eq_per_KWh reads it.
conv_ref_grid_CO2_per_KWh_WorldFromGrid(self) ==
    LET grid == SelectGrid(self)
        world == SetWorld(self, NewResult, grid.value)
        r1 == loc_set_scalar(world.value, "OECD90", <<392126590, 13504>>)
        r2 == loc_set_scalar(r1, "Eastern Europe", <<659977316, 856384>>)
        r3 == loc_set_scalar(r2, "Asia (Sans Japan)", <<385555833, 578110>>)
        r4 == loc_set_scalar(r3, "Middle East and Africa", <<185499981, 45723>>)
        r5 == loc_set_scalar(r4, "Latin America", <<491537630, 558014>>)
        r6 == loc_set_scalar(r5, "China", <<474730312, 824249>>)
        r7 == loc_set_scalar(r6, "India", <<725081980, 228424>>)
        r8 == loc_set_scalar(r7, "EU", <<297016531, 229019>>)
    IN  IF grid.kind = "raise" THEN grid
        ELSE Return(loc_set_scalar(r8, "USA", <<594563066, 959381>>))

\* The body of conv_ref_grid_CO2_per_KWh(self), under its decorators: ten
\* constants, nothing read from self.
conv_ref_grid_CO2_per_KWh(self) ==
    LET r0 == loc_set_scalar(NewResult, "World", <<484512031, 78339>>)
        r1 == loc_set_scalar(r0, "OECD90", <<392126590, 13504>>)
        r2 == loc_set_scalar(r1, "Eastern Europe", <<659977316, 856384>>)
        r3 == loc_set_scalar(r2, "Asia (Sans Japan)", <<385555833, 578110>>)
        r4 == loc_set_scalar(r3, "Middle East and Africa", <<185499981, 45723>>)
        r5 == loc_set_scalar(r4, "Latin America", <<491537630, 558014>>)
        r6 == loc_set_scalar(r5, "China", <<474730312, 824249>>)
        r7 == loc_set_scalar(r6, "India", <<725081980, 228424>>)
        r8 == loc_set_scalar(r7, "EU", <<297016531, 229019>>)
    IN  Return(loc_set_scalar(r8, "USA", <<594563066, 959381>>))

\* model.decorators.data_func, applied to the method before lru_cache: its
\* code is not among the sources; the spec gives it no effect on a call, so
\* the outcome of the body passes through it unchanged.
data_func(outcome) == outcome

\* functools.lru_cache() around a method: the key is the instance.  A hit
\* returns the stored result; a miss runs the body and stores what it
\* returns; an exception passes through and nothing is stored.
\* lru_cache that never finds its key: every call runs the body.
lru_cache_hit_Never(cache, key) == FALSE

\* A hit: the key has a stored result.
lru_cache_hit(cache, key) == key \in DOMAIN cache

lru_cache_call(cache, key, outcome) ==
    IF lru_cache_hit(cache, key) THEN Return(cache[key]) ELSE outcome

lru_cache_store(cache, key, outcome) ==
    IF ~lru_cache_hit(cache, key) /\ outcome.kind = "return"
    THEN [k \in DOMAIN cache \cup {key} |-> IF k = key THEN outcome.value ELSE cache[k]]
    ELSE cache

\* ------------------------------------------------------------------ inputs

\* Grid sources and ranges a caller holds in ac.
Sources == {GRID_SOURCE.META, GRID_SOURCE.IPCC}
Ranges == {GRID_RANGE.MEAN, GRID_RANGE.HIGH, GRID_RANGE.LOW}
\* Dataset versions: the four supported and two unsupported.
Versions == {1, 2, 3, 4, 7, 99}

\* The spellings each normalizer documents.
ConversionSpellings == {"ar5 with feedback", "ar5_with_feedback", "ar4", "sar"}
GridSourceSpellings == {"meta-analysis", "meta_analysis", "meta analysis", "ipcc only", "ipcc_only"}
GridRangeSpellings == {"mean", "median", "high", "low"}
Spellings == ConversionSpellings \cup GridSourceSpellings \cup GridRangeSpellings

\* One character upper-cased.
UpperChar(c) ==
    IF \E k \in 1..Len(LowerLetters) : CharAt(LowerLetters, k) = c
    THEN CharAt(UpperLetters, CHOOSE k \in 1..Len(LowerLetters) : CharAt(LowerLetters, k) = c)
    ELSE c

RECURSIVE Recase(_, _, _)
\* A spelling in another letter case: "upper" all upper-case, "title" the
\* first character, "odd" and "even" every second character.
Recase(s, pattern, i) ==
    IF i > Len(s) THEN ""
    ELSE (IF \/ pattern = "upper"
             \/ pattern = "title" /\ i = 1
             \/ pattern = "odd" /\ i % 2 = 1
             \/ pattern = "even" /\ i % 2 = 0
          THEN UpperChar(CharAt(s, i)) ELSE CharAt(s, i))
         \o Recase(s, pattern, i + 1)

CasePatterns == {"lower", "upper", "title", "odd", "even"}

\* Texts no normalizer documents: near misses of the documented spellings.
Unrecognized ==
    {"bogus", "", "mean ", " mean", "ipcc", "ipcc-only", "ipcc  only", "meta", "metaanalysis",
     "ar5", "ar5 with feedbac", "ar4.", "sar\n", "medium", "hi", "lowest", "AR5-WITH-FEEDBACK",
     "GRID_RANGE.MEAN"}

\* What a caller passes to a normalizer: strings, and the odd non-string.
Texts ==
    {PyStr(Recase(s, p, 1)) : s \in Spellings, p \in CasePatterns}
        \cup {PyStr(s) : s \in Unrecognized}
        \cup {None, PyInt("4")}

\* What a caller passes to CO2Equiv as conversion_source.
ConversionSources ==
    {CO2EQ_SOURCE.AR5_WITH_FEEDBACK, CO2EQ_SOURCE.AR4, CO2EQ_SOURCE.SAR,
     GRID_SOURCE.META, GRID_SOURCE.IPCC, GRID_RANGE.MEAN, GRID_RANGE.HIGH, GRID_RANGE.LOW,
     None, PyInt("0"), PyInt("1"), PyInt("34"), PyStr(""), PyStr("AR4"), PyStr("sar"),
     PyBool("False"), PyBool("True")}

\* ------------------------------------------------------------- the program

Called(op, self, args, outcome) ==
    [op |-> op, self |-> self, args |-> args, kind |-> outcome.kind, value |-> outcome.value]

\* The outcome of a call through lru_cache: also whether the call was a hit,
\* which returns the stored object itself and does not run the body.
CalledCached(op, self, args, outcome, hit) ==
    [op |-> op, self |-> self, args |-> args, kind |-> outcome.kind, value |-> outcome.value,
     hit |-> hit]

Init ==
    /\ objs = <<>>
    /\ cache_CO2eq = <<>>
    /\ cache_CO2 = <<>>
    /\ ret = Called("start", 0, <<>>, Return(None))

\* ElectricityGenOnGrid(ac, grid_emissions_version): a new instance.
Construct ==
    \E source \in Sources, grid_range \in Ranges, version \in Versions :
        /\ Len(objs) < MaxInstances
        /\ LET ac == [emissions_grid_source |-> source, emissions_grid_range |-> grid_range]
           IN  /\ objs' = Append(objs, ElectricityGenOnGrid(ac, version))
               /\ ret' = Called("ElectricityGenOnGrid", Len(objs) + 1, <<ac, version>>, Return(None))
        /\ UNCHANGED <<cache_CO2eq, cache_CO2>>

\* self.conv_ref_grid_CO2eq_per_KWh() on an instance.
Call_conv_ref_grid_CO2eq_per_KWh ==
    \E self \in 1..Len(objs) :
        LET outcome == lru_cache_call(cache_CO2eq, self,
                                     data_func(conv_ref_grid_CO2eq_per_KWh(objs[self])))
        IN  /\ cache_CO2eq' = lru_cache_store(cache_CO2eq, self, outcome)
            /\ ret' = CalledCached("conv_ref_grid_CO2eq_per_KWh", self, <<>>, outcome,
                                    lru_cache_hit(cache_CO2eq, self))
            /\ UNCHANGED <<objs, cache_CO2>>

\* self.conv_ref_grid_CO2_per_KWh() on an instance.
Call_conv_ref_grid_CO2_per_KWh ==
    \E self \in 1..Len(objs) :
        LET outcome == lru_cache_call(cache_CO2, self,
                                     data_func(conv_ref_grid_CO2_per_KWh(objs[self])))
        IN  /\ cache_CO2' = lru_cache_store(cache_CO2, self, outcome)
            /\ ret' = CalledCached("conv_ref_grid_CO2_per_KWh", self, <<>>, outcome,
                                    lru_cache_hit(cache_CO2, self))
            /\ UNCHANGED <<objs, cache_CO2eq>>

Next ==
    \/ Construct
    \/ Call_conv_ref_grid_CO2eq_per_KWh
    \/ Call_conv_ref_grid_CO2_per_KWh

Spec == Init /\ [][Next]_vars

\* The three normalizers and CO2Equiv are pure: a call leaves the instances
\* and their caches alone.
Call_string_to_conversion_source ==
    \E text \in Texts :
        /\ ret' = Called("string_to_conversion_source", 0, <<text>>, string_to_conversion_source(text))
        /\ UNCHANGED <<objs, cache_CO2eq, cache_CO2>>

Call_string_to_emissions_grid_source ==
    \E text \in Texts :
        /\ ret' = Called("string_to_emissions_grid_source", 0, <<text>>,
                         string_to_emissions_grid_source(text))
        /\ UNCHANGED <<objs, cache_CO2eq, cache_CO2>>

Call_string_to_emissions_grid_range ==
    \E text \in Texts :
        /\ ret' = Called("string_to_emissions_grid_range", 0, <<text>>,
                         string_to_emissions_grid_range(text))
        /\ UNCHANGED <<objs, cache_CO2eq, cache_CO2>>

\* CO2Equiv(conversion_source), or CO2Equiv() with the parameter's default.
Call_CO2Equiv ==
    \E args \in {<<>>} \cup {<<v>> : v \in ConversionSources} :
        /\ ret' = Called("CO2Equiv", 0, args, CO2Equiv(IF args = <<>> THEN None ELSE args[1]))
        /\ UNCHANGED <<objs, cache_CO2eq, cache_CO2>>

NextText ==
    \/ Call_string_to_conversion_source
    \/ Call_string_to_emissions_grid_source
    \/ Call_string_to_emissions_grid_range
    \/ Call_CO2Equiv

SpecText == Init /\ [][NextText]_vars

\* A caller assigning the attributes __init__ set: self.ac = ac and
\* self.grid_emissions_version = version on a live instance.  Nothing of
\* the caches is touched.
SetConfiguration ==
    \E self \in 1..Len(objs), source \in Sources, grid_range \in Ranges, version \in Versions :
        LET ac == [emissions_grid_source |-> source, emissions_grid_range |-> grid_range]
        IN  /\ objs' = [objs EXCEPT ![self] = ElectricityGenOnGrid(ac, version)]
            /\ ret' = Called("setattr", self, <<ac, version>>, Return(None))
            /\ UNCHANGED <<cache_CO2eq, cache_CO2>>

NextReconfigured ==
    \/ Next
    \/ SetConfiguration

\* The instances, their table calls, and callers that change an instance's
\* configuration between calls.
SpecReconfigured == Init /\ [][NextReconfigured]_vars

\* Configurations (source, range, version) a caller may build an instance
\* with when nothing checks them: two the table accepts, and one for each way
\* to be refused (no source, no range, a range left as text, an unsupported
\* META version).
Configurations ==
    {<<GRID_SOURCE.IPCC, GRID_RANGE.LOW, 7>>,
     <<GRID_SOURCE.META, GRID_RANGE.MEAN, 4>>,
     <<None, GRID_RANGE.MEAN, 1>>,
     <<GRID_SOURCE.META, None, 3>>,
     <<GRID_SOURCE.IPCC, PyStr("high"), 2>>,
     <<GRID_SOURCE.META, GRID_RANGE.HIGH, 99>>}

\* ElectricityGenOnGrid(ac, grid_emissions_version) with any of them:
\* __init__ stores what it is given.
ConstructUnchecked ==
    \E c \in Configurations :
        /\ Len(objs) < MaxResolvers
        /\ LET ac == [emissions_grid_source |-> c[1], emissions_grid_range |-> c[2]]
           IN  /\ objs' = Append(objs, ElectricityGenOnGrid(ac, c[3]))
               /\ ret' = Called("ElectricityGenOnGrid", Len(objs) + 1, <<ac, c[3]>>, Return(None))
        /\ UNCHANGED <<cache_CO2eq, cache_CO2>>

NextUnchecked ==
    \/ ConstructUnchecked
    \/ Call_conv_ref_grid_CO2eq_per_KWh
    \/ Call_conv_ref_grid_CO2_per_KWh

\* The instances and their table calls, with configurations the CO2-eq table
\* refuses among them.
SpecUnchecked == Init /\ [][NextUnchecked]_vars

\* What a consumer writes into a table it was handed: the value 0.0 into a
\* "World" or "USA" cell of the first year.
WrittenYears == {2015}
WrittenColumns == {"World", "USA"}
WrittenValues == {<<0, 0>>}

\* A consumer writes a cell of the table conv_ref_grid_CO2eq_per_KWh handed
\* it.  The method returns its DataFrame itself and lru_cache keeps that
\* same object, so the table written is the stored one.
Write_CO2eq_table ==
    \E self \in DOMAIN cache_CO2eq, year \in WrittenYears, column \in WrittenColumns,
       value \in WrittenValues :
        /\ cache_CO2eq' = [cache_CO2eq EXCEPT ![self] = loc_set_cell(@, year, column, value)]
        /\ ret' = Called("DataFrame.loc.__setitem__", self, <<year, column, value>>, Return(None))
        /\ UNCHANGED <<objs, cache_CO2>>

\* The same for the table conv_ref_grid_CO2_per_KWh handed out.
Write_CO2_table ==
    \E self \in DOMAIN cache_CO2, year \in WrittenYears, column \in WrittenColumns,
       value \in WrittenValues :
        /\ cache_CO2' = [cache_CO2 EXCEPT ![self] = loc_set_cell(@, year, column, value)]
        /\ ret' = Called("DataFrame.loc.__setitem__", self, <<year, column, value>>, Return(None))
        /\ UNCHANGED <<objs, cache_CO2eq>>

NextConsumer ==
    \/ Next
    \/ Write_CO2eq_table
    \/ Write_CO2_table

\* The instances, their table calls, and consumers that write into the
\* tables they were handed.
SpecConsumer == Init /\ [][NextConsumer]_vars

\* ------------------------------------------------------- reading an outcome

Years == 2015..2060

RegionColumns ==
    <<"World", "OECD90", "Eastern Europe", "Asia (Sans Japan)", "Middle East and Africa",
      "Latin America", "China", "India", "EU", "USA">>

\* The last call was the CO2-eq grid table on some instance; its configuration.
IsCO2eqCall == ret.op = "conv_ref_grid_CO2eq_per_KWh"
IsCO2Call == ret.op = "conv_ref_grid_CO2_per_KWh"
RetSource == objs[ret.self].ac.emissions_grid_source
RetRange == objs[ret.self].ac.emissions_grid_range
RetVersion == objs[ret.self].grid_emissions_version

\* The value a reference dataset holds at a year (found by its Year cell,
\* not by row position) in a column.
DatasetValue(dataset, year, column) ==
    LET year_column == Position(dataset.columns, "Year")
        row == CHOOSE i \in 1..Len(dataset.data) : dataset.data[i][year_column] = year
    IN  dataset.data[row][Position(dataset.columns, column)]

DatasetFor(source, version) ==
    CASE source = GRID_SOURCE.IPCC -> _world_ipcc
      [] source = GRID_SOURCE.META /\ version = 1 -> _world_meta_1
      [] source = GRID_SOURCE.META /\ version = 2 -> _world_meta_2
      [] source = GRID_SOURCE.META /\ version = 3 -> _world_meta_3
      [] source = GRID_SOURCE.META /\ version = 4 -> _world_meta_4

ColumnFor(grid_range) ==
    CASE grid_range = GRID_RANGE.MEAN -> "medium"
      [] grid_range = GRID_RANGE.HIGH -> "high"
      [] grid_range = GRID_RANGE.LOW -> "low"

\* A table of 46 rows, years 2015..2060 rising by one, and the ten region
\* columns in order, no cell left NaN.
FullYearlyTable(t) ==
    /\ Len(t.index) = 46
    /\ \A i \in 1..Len(t.index) : t.index[i] = 2014 + i
    /\ t.columns = RegionColumns
    /\ Len(t.data) = 46
    /\ \A i \in 1..Len(t.data) :
        /\ Len(t.data[i]) = 10
        /\ \A j \in 1..Len(t.data[i]) : t.data[i][j] # NaN

\* sub occurs in s.
Contains(s, sub) ==
    \E i \in 1..(Len(s) - Len(sub) + 1) : SubSeq(s, i, i + Len(sub) - 1) = sub

\* s ends with suffix.
EndsWith(s, suffix) ==
    /\ Len(suffix) <= Len(s)
    /\ SubSeq(s, Len(s) - Len(suffix) + 1, Len(s)) = suffix

\* ------------------------------------------------------------------ claims

\* C1: for every grid source in {META, IPCC}, grid range in {MEAN, HIGH, LOW}
\* and dataset version in 1..4, the table conv_ref_grid_CO2eq_per_KWh returns
\* has at each year 2015..2060 a "World" value equal to the value at that year
\* of the dataset chosen by (source, version), in the column chosen by range;
\* (IPCC, HIGH) at 2015 is 0.954301230978324 and (META, LOW, 3) at 2050 is
\* 0.350044212133840.
C1_WorldFromSelectedDataset ==
    (/\ IsCO2eqCall
     /\ RetSource \in {GRID_SOURCE.META, GRID_SOURCE.IPCC}
     /\ RetRange \in {GRID_RANGE.MEAN, GRID_RANGE.HIGH, GRID_RANGE.LOW}
     /\ RetVersion \in 1..4)
    => /\ ret.kind = "return"
       /\ \A y \in Years :
            Cell(ret.value, y, "World")
                = DatasetValue(DatasetFor(RetSource, RetVersion), y, ColumnFor(RetRange))
       /\ (RetSource = GRID_SOURCE.IPCC /\ RetRange = GRID_RANGE.HIGH)
            => Cell(ret.value, 2015, "World") = <<954301230, 978324>>
       /\ (RetSource = GRID_SOURCE.META /\ RetRange = GRID_RANGE.LOW /\ RetVersion = 3)
            => Cell(ret.value, 2050, "World") = <<350044212, 133840>>

C1_Witness ==
    /\ IsCO2eqCall
    /\ ret.kind = "return"
    /\ RetSource = GRID_SOURCE.META
    /\ RetRange = GRID_RANGE.LOW
    /\ RetVersion = 3

\* C2: for every valid (source, range) and valid version the CO2-eq grid
\* table is returned with exactly 46 rows, years 2015..2060 rising by one,
\* exactly the ten region columns in order, and every cell populated.
C2_FullTable ==
    (/\ IsCO2eqCall
     /\ RetRange \in {GRID_RANGE.MEAN, GRID_RANGE.HIGH, GRID_RANGE.LOW}
     /\ \/ RetSource = GRID_SOURCE.IPCC
        \/ RetSource = GRID_SOURCE.META /\ RetVersion \in 1..4)
    => /\ ret.kind = "return"
       /\ FullYearlyTable(ret.value)

C2_Witness ==
    /\ IsCO2eqCall
    /\ ret.kind = "return"
    /\ RetSource = GRID_SOURCE.META
    /\ RetRange = GRID_RANGE.MEAN
    /\ RetVersion = 1
    /\ Cell(ret.value, 2060, "USA") # NaN

\* C3: in every table the CO2-eq grid operation returns, at every year
\* 2015..2060, each of the nine non-World columns holds its one constant,
\* whatever the source, range and version.
C3_RegionConstants ==
    (IsCO2eqCall /\ ret.kind = "return")
    => \A y \in Years : LET row == RowAt(ret.value, y) IN
        /\ InRow(row, ret.value, "OECD90") = <<454068989, 0>>
        /\ InRow(row, ret.value, "Eastern Europe") = <<724747956, 0>>
        /\ InRow(row, ret.value, "Asia (Sans Japan)") = <<457658947, 0>>
        /\ InRow(row, ret.value, "Middle East and Africa") = <<282243907, 0>>
        /\ InRow(row, ret.value, "Latin America") = <<564394712, 0>>
        /\ InRow(row, ret.value, "China") = <<535962403, 0>>
        /\ InRow(row, ret.value, "India") = <<787832379, 0>>
        /\ InRow(row, ret.value, "EU") = <<360629290, 0>>
        /\ InRow(row, ret.value, "USA") = <<665071666, 0>>

C3_Witness ==
    /\ IsCO2eqCall
    /\ ret.kind = "return"
    /\ RetSource = GRID_SOURCE.META
    /\ RetRange = GRID_RANGE.HIGH
    /\ RetVersion = 4
    /\ Cell(ret.value, 2037, "OECD90") = <<454068989, 0>>

\* C4: with grid source IPCC the CO2-eq grid table does not depend on the
\* dataset version: for every range and every version, 7 and 99 included,
\* the call returns, "World" is the IPCC dataset's column for the range and
\* the table is the same cell for cell; two instances with IPCC and the same
\* range hold equal tables whatever their versions.
C4_IPCCIgnoresVersion ==
    /\ (IsCO2eqCall /\ RetSource = GRID_SOURCE.IPCC)
        => /\ ret.kind = "return"
           /\ \A y \in Years :
                Cell(ret.value, y, "World") = DatasetValue(_world_ipcc, y, ColumnFor(RetRange))
           /\ \A v \in Versions :
                LET other == conv_ref_grid_CO2eq_per_KWh(
                                 [objs[ret.self] EXCEPT !.grid_emissions_version = v])
                IN  other.kind = "return" /\ other.value = ret.value
    /\ \A i, j \in DOMAIN cache_CO2eq :
        (/\ objs[i].ac.emissions_grid_source = GRID_SOURCE.IPCC
         /\ objs[j].ac.emissions_grid_source = GRID_SOURCE.IPCC
         /\ objs[i].ac.emissions_grid_range = objs[j].ac.emissions_grid_range)
        => cache_CO2eq[i] = cache_CO2eq[j]

C4_Witness ==
    /\ IsCO2eqCall
    /\ ret.kind = "return"
    /\ RetSource = GRID_SOURCE.IPCC
    /\ RetVersion = 99

\* C5: a CO2-eq grid call with source META and a version outside 1..4 fails
\* with an error that names the version field and the version received.
C5_ErrorNamesVersion ==
    (/\ IsCO2eqCall
     /\ RetSource = GRID_SOURCE.META
     /\ RetVersion \notin 1..4)
    => /\ ret.kind = "raise"
       /\ Contains(ret.value.msg, "version")
       /\ Contains(ret.value.msg, ToString(RetVersion))

\* The spelling table of a normalizer and the member each spelling stands for.
SpellingsOf(op) ==
    CASE op = "string_to_conversion_source" -> ConversionSpellings
      [] op = "string_to_emissions_grid_source" -> GridSourceSpellings
      [] op = "string_to_emissions_grid_range" -> GridRangeSpellings

MemberFor(spelling) ==
    CASE spelling \in {"ar5 with feedback", "ar5_with_feedback"} -> CO2EQ_SOURCE.AR5_WITH_FEEDBACK
      [] spelling = "ar4" -> CO2EQ_SOURCE.AR4
      [] spelling = "sar" -> CO2EQ_SOURCE.SAR
      [] spelling \in {"meta-analysis", "meta_analysis", "meta analysis"} -> GRID_SOURCE.META
      [] spelling \in {"ipcc only", "ipcc_only"} -> GRID_SOURCE.IPCC
      [] spelling \in {"mean", "median"} -> GRID_RANGE.MEAN
      [] spelling = "high" -> GRID_RANGE.HIGH
      [] spelling = "low" -> GRID_RANGE.LOW

IsNormalizerCall ==
    ret.op \in {"string_to_conversion_source", "string_to_emissions_grid_source",
                "string_to_emissions_grid_range"}

\* a and b are the same text up to the case of their letters.
SameIgnoringCase(a, b) ==
    /\ Len(a) = Len(b)
    /\ \A i \in 1..Len(a) : UpperChar(CharAt(a, i)) = UpperChar(CharAt(b, i))

\* C6: each normalizer maps every documented spelling, in any letter case, to
\* its enumeration member; every member is the result of some text; "median"
\* and "mean" give the same member.
C6_SpellingsNormalize ==
    /\ IsNormalizerCall
        => \A s \in SpellingsOf(ret.op) :
            (ret.args[1].type = "str" /\ SameIgnoringCase(ret.args[1].name, s))
                => (ret.kind = "return" /\ ret.value = MemberFor(s))
    /\ \A m \in {CO2EQ_SOURCE[n] : n \in DOMAIN CO2EQ_SOURCE} :
        \E t \in Texts : string_to_conversion_source(t) = Return(m)
    /\ \A m \in {GRID_SOURCE[n] : n \in DOMAIN GRID_SOURCE} :
        \E t \in Texts : string_to_emissions_grid_source(t) = Return(m)
    /\ \A m \in {GRID_RANGE[n] : n \in DOMAIN GRID_RANGE} :
        \E t \in Texts : string_to_emissions_grid_range(t) = Return(m)
    /\ string_to_emissions_grid_range(PyStr("median")) = string_to_emissions_grid_range(PyStr("mean"))
    /\ string_to_emissions_grid_range(PyStr("median")) = Return(GRID_RANGE.MEAN)

C6_Witness ==
    /\ ret.op = "string_to_emissions_grid_range"
    /\ ret.args = <<PyStr("MeDiAn")>>
    /\ ret.kind = "return"
    /\ ret.value = GRID_RANGE.MEAN

\* C7: for each normalizer and every text whose lower-cased form is not
\* exactly one entry of that normalizer's table (a prefix, a substring, extra
\* whitespace or another enumeration's spelling included), the call returns
\* no member: it raises, and the error carries the text as received.
C7_UnrecognizedTextRaises ==
    (/\ IsNormalizerCall
     /\ \A s \in SpellingsOf(ret.op) : ~SameIgnoringCase(str(ret.args[1]), s))
    => /\ ret.kind = "raise"
       /\ ret.value.exc = "ValueError"
       /\ EndsWith(ret.value.msg, str(ret.args[1]))

C7_Witness ==
    /\ ret.op = "string_to_emissions_grid_source"
    /\ ret.args = <<PyStr("ipcc-only")>>
    /\ ret.kind = "raise"
    /\ EndsWith(ret.value.msg, "ipcc-only")

\* C8: CO2Equiv gives (CH4, N2O) multipliers (34, 298) for AR5_WITH_FEEDBACK,
\* (25, 298) for AR4 and (21, 310) for SAR; with no standard supplied it gives
\* the pair and the recorded conversion_source of AR5_WITH_FEEDBACK.
C8_Multipliers ==
    ret.op = "CO2Equiv"
    => /\ ret.args = <<CO2EQ_SOURCE.AR5_WITH_FEEDBACK>>
            => /\ ret.kind = "return"
               /\ ret.value.conversion_source = CO2EQ_SOURCE.AR5_WITH_FEEDBACK
               /\ <<ret.value.CH4multiplier, ret.value.N2Omultiplier>> = <<34, 298>>
       /\ ret.args = <<CO2EQ_SOURCE.AR4>>
            => /\ ret.kind = "return"
               /\ ret.value.conversion_source = CO2EQ_SOURCE.AR4
               /\ <<ret.value.CH4multiplier, ret.value.N2Omultiplier>> = <<25, 298>>
       /\ ret.args = <<CO2EQ_SOURCE.SAR>>
            => /\ ret.kind = "return"
               /\ ret.value.conversion_source = CO2EQ_SOURCE.SAR
               /\ <<ret.value.CH4multiplier, ret.value.N2Omultiplier>> = <<21, 310>>
       /\ ret.args = <<>>
            => /\ ret.kind = "return"
               /\ ret.value.conversion_source = CO2EQ_SOURCE.AR5_WITH_FEEDBACK
               /\ <<ret.value.CH4multiplier, ret.value.N2Omultiplier>> = <<34, 298>>

C8_Witness ==
    /\ ret.op = "CO2Equiv"
    /\ ret.args = <<>>
    /\ ret.kind = "return"
    /\ ret.value.CH4multiplier = 34

\* C9: CO2Equiv raises for every supplied value outside {AR5_WITH_FEEDBACK,
\* AR4, SAR}: a member of another enumeration, a number such as 0, an empty
\* string; only a call without a standard defaults to AR5_WITH_FEEDBACK.
\* (None, the parameter's own default, is read as no standard given.)
C9_OutsidersRaise ==
    (/\ ret.op = "CO2Equiv"
     /\ ret.args # <<>>
     /\ ret.args[1] # None
     /\ ret.args[1] \notin {CO2EQ_SOURCE[n] : n \in DOMAIN CO2EQ_SOURCE})
    => ret.kind = "raise"

\* C10: conv_ref_grid_CO2_per_KWh returns a 46 x 10 table, years 2015..2060
\* by the ten region columns, in which each column, World included, holds one
\* constant at every year, the same for every source, range and version of
\* the instance.
C10_FixedDirectTable ==
    IsCO2Call
    => /\ ret.kind = "return"
       /\ FullYearlyTable(ret.value)
       /\ \A y \in Years : LET row == RowAt(ret.value, y) IN
            /\ InRow(row, ret.value, "World") = <<484512031, 78339>>
            /\ InRow(row, ret.value, "OECD90") = <<392126590, 13504>>
            /\ InRow(row, ret.value, "Eastern Europe") = <<659977316, 856384>>
            /\ InRow(row, ret.value, "Asia (Sans Japan)") = <<385555833, 578110>>
            /\ InRow(row, ret.value, "Middle East and Africa") = <<185499981, 45723>>
            /\ InRow(row, ret.value, "Latin America") = <<491537630, 558014>>
            /\ InRow(row, ret.value, "China") = <<474730312, 824249>>
            /\ InRow(row, ret.value, "India") = <<725081980, 228424>>
            /\ InRow(row, ret.value, "EU") = <<297016531, 229019>>
            /\ InRow(row, ret.value, "USA") = <<594563066, 959381>>

C10_Witness ==
    /\ IsCO2Call
    /\ ret.kind = "return"
    /\ RetSource = GRID_SOURCE.META
    /\ RetRange = GRID_RANGE.LOW
    /\ RetVersion = 99
    /\ Cell(ret.value, 2015, "World") = Cell(ret.value, 2060, "World")

C12_CallAnswersCurrentConfiguration ==
    IsCO2eqCall
    => LET fresh == conv_ref_grid_CO2eq_per_KWh(objs[ret.self])
       IN  /\ ret.kind = fresh.kind
           /\ ret.kind = "return" => ret.value = fresh.value

\* The configurations conv_ref_grid_CO2eq_per_KWh is defined for.
ValidConfiguration(self) ==
    /\ self.ac.emissions_grid_source \in {GRID_SOURCE.META, GRID_SOURCE.IPCC}
    /\ self.ac.emissions_grid_range \in {GRID_RANGE.MEAN, GRID_RANGE.HIGH, GRID_RANGE.LOW}
    /\ self.ac.emissions_grid_source = GRID_SOURCE.META => self.grid_emissions_version \in 1..4

\* C13: a call of conv_ref_grid_CO2eq_per_KWh whose grid source is outside
\* {META, IPCC}, whose grid range is outside {MEAN, HIGH, LOW}, or whose
\* source is META with a version outside 1..4 returns no table: it raises,
\* every time it is made, and the cache never holds an entry for it; a call
\* with a valid configuration, whatever failed before it, returns the full
\* table with "World" from the selected dataset.
C13_InvalidCallRaisesStoresNothing ==
    /\ \A i \in 1..Len(objs) : ~ValidConfiguration(objs[i]) => i \notin DOMAIN cache_CO2eq
    /\ IsCO2eqCall
        => IF ValidConfiguration(objs[ret.self])
           THEN /\ ret.kind = "return"
                /\ FullYearlyTable(ret.value)
                /\ \A y \in Years :
                     Cell(ret.value, y, "World")
                         = DatasetValue(DatasetFor(RetSource, RetVersion), y, ColumnFor(RetRange))
           ELSE /\ ret.kind = "raise"
                /\ ret.value.exc = "ValueError"
                /\ ~ret.hit

\* A refused call on the second instance, made while the cache holds the
\* table of the first.
C13_Witness ==
    /\ IsCO2eqCall
    /\ ret.self = 2
    /\ ret.kind = "raise"
    /\ RetRange = None
    /\ DOMAIN cache_CO2eq = {1}

\* C14: the tables handed to consumers are immutable and cache entries stay
\* valid: after any calls of the two table operations and any use a consumer
\* makes of a returned table, writing to its cells included, a call still
\* returns the values first computed for the instance's configuration.
C14_HandedTablesStayAsComputed ==
    /\ (IsCO2eqCall /\ ret.kind = "return")
        => ret.value = conv_ref_grid_CO2eq_per_KWh(objs[ret.self]).value
    /\ (IsCO2Call /\ ret.kind = "return")
        => ret.value = conv_ref_grid_CO2_per_KWh(objs[ret.self]).value

====
